---- MODULE Spec2Model ----
(***************************************************************************)
(* A model of subfix's converter: ConverterManager.get_encoding,           *)
(* ConverterManager.convert, ConverterManager._generate_target_path and    *)
(* ConverterManager.batch_convert (src/src/subfix/converter/manager.py),   *)
(* with the path and string helpers they call (src/src/subfix/utils).      *)
(*                                                                         *)
(* A string is a sequence of one-character strings, so that split,         *)
(* replace, strip and join are computed as Python computes them.           *)
(***************************************************************************)
EXTENDS Integers, Sequences, FiniteSets, TLC

\* ------------------------------------------------------------------------
\* Python's str and posixpath operations
\* ------------------------------------------------------------------------

\* Python's None where a string may stand: no string, since every element of a
\* string is a single character
None == <<"None">>

\* an int or bool keyword that is None or not given, and one that is given
Absent == <<>>
Some(v) == <<v>>

\* the elements of a list
Range(list) == {list[i] : i \in 1..Len(list)}

RECURSIVE Cat(_)
\* ''.join(parts): the concatenation of a sequence of strings
Cat(parts) ==
    IF parts = <<>> THEN <<>> ELSE Head(parts) \o Cat(Tail(parts))

\* str.startswith
StartsWith(s, p) ==
    Len(p) <= Len(s) /\ SubSeq(s, 1, Len(p)) = p

\* str.endswith
EndsWith(s, p) ==
    Len(p) <= Len(s) /\ SubSeq(s, Len(s) - Len(p) + 1, Len(s)) = p

RECURSIVE RStrip(_, _)
\* str.rstrip(c) for a one-character c
RStrip(s, c) ==
    IF s # <<>> /\ s[Len(s)] = c THEN RStrip(SubSeq(s, 1, Len(s) - 1), c) ELSE s

RECURSIVE LStrip(_, _)
\* str.lstrip(c) for a one-character c
LStrip(s, c) ==
    IF s # <<>> /\ Head(s) = c THEN LStrip(Tail(s), c) ELSE s

RECURSIVE Replace(_, _, _)
\* str.replace(old, new): every non-overlapping occurrence, left to right
Replace(s, old, new) ==
    IF old = <<>>
    THEN IF s = <<>> THEN new ELSE new \o <<Head(s)>> \o Replace(Tail(s), old, new)
    ELSE IF s = <<>> THEN <<>>
    ELSE IF StartsWith(s, old)
         THEN new \o Replace(SubSeq(s, Len(old) + 1, Len(s)), old, new)
         ELSE <<Head(s)>> \o Replace(Tail(s), old, new)

RECURSIVE Split(_, _)
\* str.split(c) for a one-character c: always at least one part
Split(s, c) ==
    IF \E i \in 1..Len(s) : s[i] = c
    THEN LET i == CHOOSE k \in 1..Len(s) :
                      s[k] = c /\ \A j \in 1..(k - 1) : s[j] # c
         IN  <<SubSeq(s, 1, i - 1)>> \o Split(SubSeq(s, i + 1, Len(s)), c)
    ELSE <<s>>

RECURSIVE Join(_, _)
\* sep.join(parts)
Join(parts, sep) ==
    IF parts = <<>> THEN <<>>
    ELSE IF Len(parts) = 1 THEN parts[1]
    ELSE parts[1] \o sep \o Join(Tail(parts), sep)

\* s.rfind(c) + 1: the position after the last c, 0 when there is none
AfterLast(s, c) ==
    IF \E i \in 1..Len(s) : s[i] = c
    THEN CHOOSE k \in 1..Len(s) : s[k] = c /\ \A j \in (k + 1)..Len(s) : s[j] # c
    ELSE 0

\* str.lower on the letters the model uses
LowerChar(c) ==
    CASE c = "S" -> "s"
      [] c = "R" -> "r"
      [] c = "T" -> "t"
      [] c = "U" -> "u"
      [] c = "F" -> "f"
      [] c = "X" -> "x"
      [] OTHER -> c

lower(s) == [i \in 1..Len(s) |-> LowerChar(s[i])]

\* str.isspace: non-empty and whitespace only
isspace(s) == s # <<>> /\ \A i \in 1..Len(s) : s[i] = " "

\* posixpath.basename
basename(p) == SubSeq(p, AfterLast(p, "/") + 1, Len(p))

\* posixpath.dirname's last step: head.rstrip('/') unless head is all slashes
StripHead(head, stripped) == IF stripped # <<>> THEN stripped ELSE head

\* posixpath.dirname
dirname(p) ==
    StripHead(SubSeq(p, 1, AfterLast(p, "/")),
              RStrip(SubSeq(p, 1, AfterLast(p, "/")), "/"))

\* posixpath.isabs
isabs(p) == StartsWith(p, <<"/">>)

\* posixpath.join(a, b)
join(a, b) ==
    IF isabs(b) THEN b
    ELSE IF a = <<>> \/ EndsWith(a, <<"/">>) THEN a \o b
    ELSE a \o <<"/">> \o b

RECURSIVE NormComps(_, _)
\* posixpath.normpath's loop over the components of an absolute path
NormComps(comps, acc) ==
    IF comps = <<>> THEN acc
    ELSE LET c == Head(comps)
         IN  IF c = <<>> \/ c = <<".">> THEN NormComps(Tail(comps), acc)
             ELSE IF c = <<".", ".">>
                  THEN NormComps(Tail(comps),
                                 IF acc = <<>> THEN acc
                                 ELSE SubSeq(acc, 1, Len(acc) - 1))
                  ELSE NormComps(Tail(comps), Append(acc, c))

\* the process's working directory, which os.path.abspath joins a relative path to
cwd == <<"/", "w">>

\* os.path.abspath
abspath(p) ==
    <<"/">> \o Join(NormComps(Split(join(cwd, p), "/"), <<>>), <<"/">>)

\* ------------------------------------------------------------------------
\* subfix.utils.path, subfix.utils.string
\* ------------------------------------------------------------------------

\* the characters normalize_file_name replaces
invalid_chars == <<"\\", "/", "*", "<", ">", ":", "\"", "|", "?">>

RECURSIVE ReplaceEach(_, _, _)
\* the loop of normalize_file_name: one str.replace per character of chars
ReplaceEach(s, chars, new) ==
    IF chars = <<>> THEN s
    ELSE ReplaceEach(Replace(s, <<Head(chars)>>, new), Tail(chars), new)

\* path_utils.normalize_file_name
normalize_file_name(file_name) ==
    IF file_name = None THEN None ELSE ReplaceEach(file_name, invalid_chars, <<"-">>)

\* get_name's `parts[:-1]` when the name has more than one part
DropLast(parts) ==
    IF Len(parts) > 1 THEN SubSeq(parts, 1, Len(parts) - 1) ELSE parts

\* path_utils.get_name(file_path, keep_extension)
get_name(file_path, keep_extension) ==
    IF keep_extension
    THEN basename(RStrip(RStrip(file_path, "/"), "\\"))
    ELSE Join(DropLast(Split(basename(RStrip(RStrip(file_path, "/"), "\\")), ".")),
              <<".">>)

\* path_utils.get_extension
get_extension(file_path) ==
    LStrip(Replace(basename(file_path), get_name(file_path, FALSE), <<>>), ".")

\* the characters generate_slug draws from, after to_lower: a part of
\* string.ascii_letters + string.digits that holds a letter and a digit
SlugChars == {"s", "1"}

\* string_utils.generate_slug(length): the slugs the random generator returns in
\* the model, one per character of SlugChars: that character, length times
generate_slug(length) ==
    IF length <= 0 THEN {<<>>} ELSE {[i \in 1..length |-> c] : c \in SlugChars}

\* ------------------------------------------------------------------------
\* ConverterManager: constants and pure helpers
\* ------------------------------------------------------------------------

\* ConverterManager.CONFIDENCE_THRESHOLD, in hundredths
CONFIDENCE_THRESHOLD == 70

\* EncodingEnum.UTF8
UTF8 == <<"u", "t", "f", "-", "8">>

\* EncodingEnum.CP1256
CP1256 == <<"c", "p", "1", "2", "5", "6">>

\* ConverterManager.FALLBACK_ENCODING
FALLBACK_ENCODING == CP1256

\* ConverterManager.DEFAULT_ENCODING
DEFAULT_ENCODING == UTF8

\* ConverterManager.DEFAULT_SLUG_LENGTH
DEFAULT_SLUG_LENGTH == 3

\* ConverterManager.SUBTITLE_EXTENSIONS
SUBTITLE_EXTENSIONS == <<<<"s", "r", "t">>>>

\* Python's `sub in s` on strings
Contains(s, sub) ==
    \E i \in 0..(Len(s) - Len(sub)) : SubSeq(s, i + 1, i + Len(sub)) = sub

\* get_encoding without the lower() of lines 72-73
get_encoding_case_sensitive(encoding, confidence) ==
    IF encoding # None
          /\ (Contains(encoding, <<"u", "t", "f", "8">>)
                \/ Contains(encoding, <<"u", "t", "f", "-", "8">>))
          /\ confidence >= CONFIDENCE_THRESHOLD
    THEN UTF8
    ELSE IF encoding # None /\ confidence >= CONFIDENCE_THRESHOLD
    THEN encoding
    ELSE FALLBACK_ENCODING

\* ConverterManager.get_encoding, on what try_detect_encoding returned
get_encoding(encoding, confidence) ==
    IF encoding # None
          /\ (Contains(lower(encoding), <<"u", "t", "f", "8">>)
                \/ Contains(lower(encoding), <<"u", "t", "f", "-", "8">>))
          /\ confidence >= CONFIDENCE_THRESHOLD
    THEN UTF8
    ELSE IF encoding # None /\ confidence >= CONFIDENCE_THRESHOLD
    THEN encoding
    ELSE FALLBACK_ENCODING

\* ConverterManager._concat
concat(start, end) ==
    LET has_start == start \notin {None, <<>>}
        has_end == end \notin {None, <<>>}
    IN  IF has_start /\ has_end THEN start \o <<".">> \o end
        ELSE IF has_start THEN start
        ELSE IF has_end THEN end
        ELSE <<>>

\* ConverterManager._extract_name
extract_name(file_path) ==
    [directory_name |-> dirname(file_path),
     base_name |-> get_name(file_path, FALSE),
     extension |-> get_extension(file_path)]

\* _make_name's format strings, applied to the base it computed
format_name(base, extension, slug, suffix) ==
    IF Len(slug) > 0 /\ Len(suffix) > 0
    THEN base \o <<".">> \o slug \o <<".">> \o suffix \o <<".">> \o extension
    ELSE IF Len(slug) > 0
    THEN base \o <<".">> \o slug \o <<".">> \o extension
    ELSE IF Len(suffix) > 0
    THEN base \o <<".">> \o suffix \o <<".">> \o extension
    ELSE base \o <<".">> \o extension

\* _make_name, lines 428-433: options.get with None read as ''
or_empty(v) == IF v = None THEN <<>> ELSE v

\* ConverterManager._make_name
make_name(directory, file_name, extension, slug, suffix) ==
    format_name(abspath(join(directory, file_name)), extension, slug, suffix)

\* ConverterManager._is_subtitle
is_subtitle(file_name, extensions) ==
    \E ext \in {e \in Range(IF extensions = None \/ Len(extensions) <= 0
                            THEN SUBTITLE_EXTENSIONS ELSE extensions) : TRUE} :
        EndsWith(lower(file_name), lower(ext))

\* ------------------------------------------------------------------------
\* State
\* ------------------------------------------------------------------------

VARIABLES
    files,             \* the regular files on disk: path -> content
    dirs,              \* the directories on disk
    pc,                \* where batch_convert is (or which other entry point runs)
    args,              \* the arguments of the top-level call
    run,               \* batch_convert's locals once it has validated its arguments
    subtitles,         \* batch_convert's list of discovered files
    sequence,          \* batch_convert's loop counter (enumerate, start=1)
    failed_subtitles,  \* batch_convert's ledger: file -> str(error)
    raised,            \* the exception that left the top-level call, or NoError
    call,              \* the convert call in progress, or the last one
    history,           \* every finished convert call of the run, in order
    detected,          \* what try_detect_encoding returned: encoding and confidence
    encoding,          \* what get_encoding returned, or None
    result             \* what _make_name returned, or None

vars == <<files, dirs, pc, args, run, subtitles, sequence, failed_subtitles,
          raised, call, history, detected, encoding, result>>

\* os.path.exists that sees directories only
exists_directories_only(fs, ds, p) == p \in ds

\* os.path.exists, os.path.isfile, os.path.isdir
exists(fs, ds, p) == p \in DOMAIN fs \/ p \in ds
isfile(fs, p) == p \in DOMAIN fs
isdir(ds, p) == p \in ds

\* the exception classes of the package that derive from SubfixException: the
\* classes converter/exceptions.py and utils/exceptions.py declare on the
\* Subfix* bases of subfix.core.exceptions
SubfixExceptions ==
    {"InvalidSourceDirectoryError", "InvalidTargetDirectoryError",
     "SequenceNamingIsRequiredError", "EncodingError",
     "TargetDirectoryIsNotEmptyError", "BatchConvertError",
     "FileAlreadyExistedError", "FileNotExistedError", "DirectoryNotExistedError",
     "InvalidPathError", "PathIsNotAbsoluteError", "PathNotExistedError"}

\* an exception: its class, whether the class derives from SubfixException,
\* and the path its message names
Error(type, path) ==
    [type |-> type, subfix |-> type \in SubfixExceptions, path |-> path]
NoError == Error("None", None)

\* str(error), as the ledger stores it
Str(error) == <<error.type, error.path>>

\* the content of a file: what it holds and, for a file convert wrote, its source
Content(kind, from) == [kind |-> kind, from |-> from]

\* whether open(file).read() gets at the bytes (the process may read the file)
readable(content) == content.kind # "unreadable"

\* chardet.detect on a file's bytes (an external classifier: one fixed answer per
\* kind of content)
detect(content) ==
    CASE content.kind = "plain" ->
            [encoding |-> <<"a", "s", "c", "i", "i">>, confidence |-> 100]
      [] content.kind = "arabic" ->
            [encoding |-> <<"w", "1", "2", "5", "6">>, confidence |-> 60]
      [] content.kind = "utf8" ->
            [encoding |-> <<"U", "T", "F", "-", "8", "-", "S", "I", "G">>, confidence |-> 100]
      [] OTHER -> [encoding |-> None, confidence |-> 0]

\* whether open(file, encoding=enc).read() decodes the content: cp1256 maps
\* every byte, utf-8 and ascii reject the bytes of the other encodings
decodes(content, enc) ==
    CASE content.kind = "plain" -> TRUE
      [] content.kind = "arabic" -> enc = CP1256
      [] content.kind = "utf8" -> enc \in {UTF8, CP1256}
      [] OTHER -> FALSE

ASCII == <<"a", "s", "c", "i", "i">>

\* whether write() encodes the decoded text under enc
encodes(content, enc) == content.kind = "plain" \/ enc # ASCII

\* ------------------------------------------------------------------------
\* ConverterManager._generate_target_path and ConverterManager.convert
\* ------------------------------------------------------------------------

\* the keyword options convert and _generate_target_path read
ConvertOptions(target_directory, target_file, suffix, slug_length, from_encoding, to_encoding) ==
    [target_directory |-> target_directory, target_file |-> target_file,
     suffix |-> suffix, slug_length |-> slug_length,
     from_encoding |-> from_encoding, to_encoding |-> to_encoding]

\* the slug length one invocation passes to generate_slug (manager.py 380-383)
slug_length_of(opts) ==
    IF opts.slug_length = Absent \/ opts.slug_length[1] < 0
    THEN 0 ELSE opts.slug_length[1]

\* _generate_target_path, lines 363-383: the path and the options as it reads them
read_options(file_path, opts) ==
    [path |-> RStrip(RStrip(file_path, "/"), "\\"),
     target_file |-> normalize_file_name(
                         IF opts.target_file = None THEN <<>> ELSE opts.target_file),
     suffix |-> IF opts.suffix = None THEN <<>> ELSE opts.suffix,
     target_directory |->
         IF opts.target_directory # None
         THEN RStrip(RStrip(opts.target_directory, "/"), "\\") ELSE None,
     slug_length |-> slug_length_of(opts)]

\* _generate_target_path, lines 385-390: the directory, the base name and the
\* extension of the destination, from the options o and the source's parts
destination(o, parts) ==
    [destination_dir |->
         IF o.target_directory \notin {None, <<>>}
         THEN o.target_directory ELSE parts.directory_name,
     destination_name |->
         IF o.target_file \notin {None, <<>>} /\ ~isspace(o.target_file)
         THEN o.target_file ELSE parts.base_name,
     extension |-> parts.extension]

\* _generate_target_path, lines 392-395: the two candidate paths
with_paths(o, d, slug) ==
    [path |-> o.path,
     target_directory |-> o.target_directory,
     slug_length |-> o.slug_length,
     slug |-> slug,
     suffix |-> o.suffix,
     destination_dir |-> d.destination_dir,
     destination_name |-> d.destination_name,
     extension |-> d.extension,
     new_path |-> make_name(d.destination_dir, d.destination_name, d.extension,
                            <<>>, o.suffix),
     new_duplicate_path |-> make_name(d.destination_dir, d.destination_name,
                                      d.extension, slug, o.suffix)]

\* lines 385-395 on the options o
with_names(o, slug) == with_paths(o, destination(o, extract_name(o.path)), slug)

\* what one invocation of _generate_target_path computes before it looks at the
\* disk, for the slug the generator returned (lines 363-395)
candidates(file_path, opts, slug) == with_names(read_options(file_path, opts), slug)

\* what one invocation of _generate_target_path does
Outcome(kind, path, error, options, c) ==
    [kind |-> kind, path |-> path, error |-> error, options |-> options,
     attempt |-> c]

\* line 403 with >= in place of >
may_retry_at_zero(c) == c.slug_length >= 0

\* lines 404-406 with the slug length passed on as it is
retry_options_same_length(c, opts) ==
    [opts EXCEPT !.target_directory = c.destination_dir,
                 !.target_file = c.destination_name,
                 !.slug_length = Some(c.slug_length)]

\* _generate_target_path, line 403: whether a collision of both candidates is
\* answered with another invocation
may_retry(c) == c.slug_length > 0

\* _generate_target_path, lines 404-406: the options of the recursive invocation
retry_options(c, opts) ==
    [opts EXCEPT !.target_directory = c.destination_dir,
                 !.target_file = c.destination_name,
                 !.slug_length = Some(c.slug_length + 1)]

\* lines 397-408 with the slugged candidate tried before the plain one
decide_slug_first(c, opts, fs, ds) ==
    IF ~isabs(c.path)
    THEN Outcome("raise", None, Error("PathIsNotAbsoluteError", c.path), opts, c)
    ELSE IF c.target_directory # None /\ ~isabs(c.target_directory)
    THEN Outcome("raise", None,
                 Error("PathIsNotAbsoluteError", c.target_directory), opts, c)
    ELSE IF ~isabs(c.destination_dir)
    THEN Outcome("raise", None,
                 Error("PathIsNotAbsoluteError", c.destination_dir), opts, c)
    ELSE IF ~exists(fs, ds, c.new_duplicate_path)
    THEN Outcome("return", c.new_duplicate_path, NoError, opts, c)
    ELSE IF ~exists(fs, ds, c.new_path)
    THEN Outcome("return", c.new_path, NoError, opts, c)
    ELSE IF c.slug_length > 0
    THEN Outcome("retry", None, NoError, retry_options(c, opts), c)
    ELSE Outcome("raise", None, Error("FileAlreadyExistedError", c.new_path),
                 opts, c)

\* _generate_target_path's assertions and lines 397-408, on the candidates c and
\* the disk (fs, ds): return a path, raise, or call itself again with the options
\* it updated
decide(c, opts, fs, ds) ==
    IF ~isabs(c.path)
    THEN Outcome("raise", None, Error("PathIsNotAbsoluteError", c.path), opts, c)
    ELSE IF c.target_directory # None /\ ~isabs(c.target_directory)
    THEN Outcome("raise", None,
                 Error("PathIsNotAbsoluteError", c.target_directory), opts, c)
    ELSE IF ~isabs(c.destination_dir)
    THEN Outcome("raise", None,
                 Error("PathIsNotAbsoluteError", c.destination_dir), opts, c)
    ELSE IF ~exists(fs, ds, c.new_path)
    THEN Outcome("return", c.new_path, NoError, opts, c)
    ELSE IF ~exists(fs, ds, c.new_duplicate_path)
    THEN Outcome("return", c.new_duplicate_path, NoError, opts, c)
    ELSE IF may_retry(c)
    THEN Outcome("retry", None, NoError, retry_options(c, opts), c)
    ELSE Outcome("raise", None, Error("FileAlreadyExistedError", c.new_path),
                 opts, c)

\* one invocation of _generate_target_path against the disk (fs, ds), for the slug
\* the generator returned
generate_target_path(file_path, opts, slug, fs, ds) ==
    decide(candidates(file_path, opts, slug), opts, fs, ds)

\* a convert call: its arguments, where it is, and what it has done
Call(file_path, opts, fs) ==
    [pc |-> "enter", file_path |-> file_path, options |-> opts, before |-> fs,
     attempts |-> <<>>, target |-> None, error |-> NoError]

NoCall ==
    [pc |-> "idle", file_path |-> None,
     options |-> ConvertOptions(None, None, None, Absent, None, None),
     before |-> <<>>, attempts |-> <<>>, target |-> None, error |-> NoError]

\* the record history keeps of a finished convert call
Finished(c) ==
    [file_path |-> c.file_path, target |-> c.target, error |-> c.error,
     attempts |-> c.attempts, suffix |-> c.options.suffix]

\* the call once it has raised or returned, and the history with it
Leave(c) ==
    /\ call' = c
    /\ history' = Append(history, Finished(c))

\* convert, line 116: path_utils.assert_file_exists(file_path)
ConvertEnter ==
    /\ call.pc = "enter"
    /\ IF ~isabs(call.file_path)
       THEN Leave([call EXCEPT !.pc = "raised",
                     !.error = Error("PathIsNotAbsoluteError", call.file_path)])
       ELSE IF ~isfile(files, call.file_path)
       THEN Leave([call EXCEPT !.pc = "raised",
                     !.error = Error("FileNotExistedError", call.file_path)])
       ELSE /\ call' = [call EXCEPT !.pc = "resolve"]
            /\ UNCHANGED history
    /\ UNCHANGED <<files, dirs, pc, args, run, subtitles, sequence,
                   failed_subtitles, raised, detected, encoding, result>>

\* the call after an invocation of _generate_target_path that did r
after_attempt(c, r) ==
    [c EXCEPT !.pc = IF r.kind = "return" THEN "write"
                     ELSE IF r.kind = "retry" THEN "resolve" ELSE "raised",
              !.target = r.path,
              !.error = r.error,
              !.options = r.options,
              !.attempts = Append(c.attempts, r.attempt)]

\* the step of convert an invocation that did r makes
Resolved(r) ==
    IF r.kind = "raise"
    THEN Leave(after_attempt(call, r))
    ELSE call' = after_attempt(call, r) /\ UNCHANGED history

\* convert, line 117: one invocation of _generate_target_path, the first or a
\* recursive one
Resolve ==
    /\ call.pc = "resolve"
    /\ \E slug \in generate_slug(slug_length_of(call.options)) :
          Resolved(generate_target_path(call.file_path, call.options, slug,
                                        files, dirs))
    /\ UNCHANGED <<files, dirs, pc, args, run, subtitles, sequence,
                   failed_subtitles, raised, detected, encoding, result>>

\* a path's ancestors: the directories os.makedirs has to find or create
Ancestors(p) ==
    {SubSeq(p, 1, i - 1) : i \in {k \in 2..Len(p) : p[k] = "/"}} \cup {<<"/">>}

\* convert, lines 122-127: the encodings, from the options and the detector
encodings(opts, found) ==
    [from_encoding |-> IF opts.from_encoding = None
                       THEN get_encoding(found.encoding, found.confidence)
                       ELSE opts.from_encoding,
     to_encoding |-> IF opts.to_encoding = None
                     THEN DEFAULT_ENCODING ELSE opts.to_encoding,
     found |-> found]

\* a convert that removes the files converted so far when it fails
Written_rolled_back(fs, ds, error, enc, settled) ==
    [files |-> IF error = NoError THEN fs
               ELSE [p \in {q \in DOMAIN fs : fs[q].kind # "converted"} |-> fs[p]],
     dirs |-> ds, error |-> error, enc |-> enc, settled |-> settled]

\* what lines 118-131 of convert leave behind
Written(fs, ds, error, enc, settled) ==
    [files |-> fs, dirs |-> ds, error |-> error, enc |-> enc, settled |-> settled]

\* convert, lines 118-131, for the target c.target: create its directory, settle
\* the encodings enc, read the source whole, then open the target and write it
write(c, target_directory, enc, fs, ds) ==
    IF ~exists(fs, ds, target_directory)
          /\ \E d \in Ancestors(target_directory) : isfile(fs, d)
    THEN \* os.makedirs meets a regular file on the way
         Written(fs, ds, Error("NotADirectoryError", target_directory), enc,
                 FALSE)
    ELSE IF ~readable(fs[c.file_path])
    THEN \* the detector's or the reader's open() is refused
         Written(fs, ds \cup Ancestors(target_directory) \cup {target_directory},
                 Error("PermissionError", c.file_path), enc, FALSE)
    ELSE IF ~decodes(fs[c.file_path], enc.from_encoding)
    THEN Written(fs, ds \cup Ancestors(target_directory) \cup {target_directory},
                 Error("UnicodeDecodeError", c.file_path), enc, TRUE)
    ELSE IF isfile(fs, target_directory)
    THEN \* open() of a path under a regular file
         Written(fs, ds, Error("NotADirectoryError", c.target), enc, TRUE)
    ELSE IF ~encodes(fs[c.file_path], enc.to_encoding)
    THEN \* open() created the file, write() raised
         Written((c.target :> Content("empty", c.file_path)) @@ fs,
                 ds \cup Ancestors(target_directory) \cup {target_directory},
                 Error("UnicodeEncodeError", c.file_path), enc, TRUE)
    ELSE Written((c.target :> Content("converted", c.file_path)) @@ fs,
                 ds \cup Ancestors(target_directory) \cup {target_directory},
                 NoError, enc, TRUE)

\* the step of convert that leaves w behind
Wrote(w) ==
    /\ files' = w.files
    /\ dirs' = w.dirs
    /\ detected' = IF w.settled /\ call.options.from_encoding = None
                   THEN w.enc.found ELSE detected
    /\ encoding' = IF w.settled THEN w.enc.from_encoding ELSE encoding
    /\ Leave([call EXCEPT !.pc = IF w.error = NoError THEN "returned" ELSE "raised",
                          !.error = w.error])

\* convert, lines 118-131
ConvertWrite ==
    /\ call.pc = "write"
    /\ Wrote(write(call, dirname(call.target),
                   encodings(call.options, detect(files[call.file_path])),
                   files, dirs))
    /\ UNCHANGED <<pc, args, run, subtitles, sequence, failed_subtitles, raised,
                   result>>

\* ------------------------------------------------------------------------
\* ConverterManager.batch_convert
\* ------------------------------------------------------------------------

\* the arguments of batch_convert(source_directory, **options)
BatchArgs(source_directory, target_directory, fixed_name, sequence_naming, suffix, slug_length, silent, extensions) ==
    [source_directory |-> source_directory, target_directory |-> target_directory,
     fixed_name |-> fixed_name, sequence_naming |-> sequence_naming,
     suffix |-> suffix, slug_length |-> slug_length, silent |-> silent,
     extensions |-> extensions, from_encoding |-> None, to_encoding |-> None]

\* the exception that leaves the top-level call: the error, the error it wraps,
\* and the count and the data of a BatchConvertError
Raised(error, cause, num, data) ==
    [error |-> error, cause |-> cause, num |-> num, data |-> data]

\* ConverterManager._contains_files
contains_files(fs, ds, directory) ==
    isdir(ds, directory) /\ \E p \in DOMAIN fs : dirname(p) = abspath(directory)

\* batch_convert, lines 200-204: the target directory it works with
target_of(a) ==
    IF a.target_directory \notin {None, <<>>}
    THEN abspath(a.target_directory) ELSE a.target_directory

\* lines 197-217 without the test of lines 214-217
validate_no_file_test(a, target_directory, fs, ds) ==
    IF ~isdir(ds, a.source_directory)
    THEN Error("InvalidSourceDirectoryError", a.source_directory)
    ELSE IF a.target_directory \notin {None, <<>>}
              /\ StartsWith(target_directory, abspath(a.source_directory))
              /\ contains_files(fs, ds, target_directory)
    THEN Error("TargetDirectoryIsNotEmptyError", target_directory)
    ELSE NoError

\* batch_convert, lines 197-217: the error it rejects its arguments with, if any
validate(a, target_directory, fs, ds) ==
    IF ~isdir(ds, a.source_directory)
    THEN Error("InvalidSourceDirectoryError", a.source_directory)
    ELSE IF a.target_directory \notin {None, <<>>}
              /\ StartsWith(target_directory, abspath(a.source_directory))
              /\ contains_files(fs, ds, target_directory)
    THEN Error("TargetDirectoryIsNotEmptyError", target_directory)
    ELSE IF a.target_directory \notin {None, <<>>} /\ isfile(fs, target_directory)
    THEN Error("InvalidTargetDirectoryError", target_directory)
    ELSE NoError

\* batch_convert, lines 225-227: the caller's flag, None read as False
flag_of(a) == a.sequence_naming # Absent /\ a.sequence_naming[1]

\* lines 225-235 without the forcing of lines 233-235
sequence_naming_unforced(a) == flag_of(a)

\* batch_convert, lines 225-235: whether sequence naming is applied
sequence_naming_of(a) ==
    \/ flag_of(a)
    \/ a.fixed_name \notin {None, <<>>}
    \/ a.target_directory \notin {None, <<>>}

\* batch_convert, lines 219-237: its locals when the loop starts. The options it
\* passes on hold no suffix (line 221 pops it); the slug length is settled on the
\* caller's flag (line 230) before the flag is forced (line 234)
locals(a, target_directory) ==
    [source_directory |-> abspath(a.source_directory),
     options |-> ConvertOptions(target_directory, a.fixed_name, None,
                                IF a.slug_length = Absent /\ ~flag_of(a)
                                THEN Some(DEFAULT_SLUG_LENGTH) ELSE a.slug_length,
                                a.from_encoding, a.to_encoding),
     suffix |-> IF a.suffix = None THEN <<>> ELSE a.suffix,
     sequence_naming |-> sequence_naming_of(a),
     fixed_name |-> a.fixed_name,
     silent |-> a.silent = Absent \/ a.silent[1],
     extensions |-> a.extensions]

\* a validation that records the error and goes on to discover
Validated_goes_on(error, target_directory) ==
    /\ pc' = "Discovering"
    /\ run' = locals(args, target_directory)
    /\ raised' = Raised(error, NoError, 0, <<>>)

\* the step batch_convert makes on the error its validation found
Validated(error, target_directory) ==
    IF error # NoError
    THEN /\ pc' = "Rejected"
         /\ raised' = Raised(error, NoError, 0, <<>>)
         /\ UNCHANGED run
    ELSE /\ pc' = "Discovering"
         /\ run' = locals(args, target_directory)
         /\ UNCHANGED raised

\* batch_convert, lines 197-237
BatchStart ==
    /\ pc = "Validating"
    /\ Validated(validate(args, target_of(args), files, dirs), target_of(args))
    /\ UNCHANGED <<files, dirs, args, subtitles, sequence, failed_subtitles,
                   call, history, detected, encoding, result>>

\* ConverterManager._discover_subtitles: the files os.walk finds under the source
\* directory that _is_subtitle accepts
discover_subtitles(fs, source_directory, extensions) ==
    {p \in DOMAIN fs : /\ StartsWith(p, source_directory \o <<"/">>)
                       /\ is_subtitle(p, extensions)}

\* list(subtitles) without set(): any list of that length over the files
Orders_repeating(S) == [1..Cardinality(S) -> S]

\* list(set(subtitles)): the files in any order, each once
Orders(S) ==
    {o \in [1..Cardinality(S) -> S] : \A i, j \in DOMAIN o : o[i] = o[j] => i = j}

\* batch_convert, lines 239-240
Discover ==
    /\ pc = "Discovering"
    /\ subtitles' \in Orders(discover_subtitles(files, run.source_directory,
                                                run.extensions))
    /\ pc' = "Converting"
    /\ UNCHANGED <<files, dirs, args, run, sequence, failed_subtitles, raised,
                   call, history, detected, encoding, result>>

DecimalDigits == <<"0", "1", "2", "3", "4", "5", "6", "7", "8", "9">>

RECURSIVE str(_)
\* Python's str(n) for an int n >= 0
str(n) ==
    IF n < 10 THEN <<DecimalDigits[n + 1]>>
    ELSE str(n \div 10) \o <<DecimalDigits[(n % 10) + 1]>>

\* lines 242-247 with the files counted from 0
options_for_zero_based(r, number) ==
    IF r.sequence_naming
    THEN [r.options EXCEPT !.suffix = concat(str(number - 1), r.suffix)]
    ELSE r.options

\* batch_convert, lines 242-247: the options of the convert call for the file
\* with this sequence number
options_for(r, number) ==
    IF r.sequence_naming
    THEN [r.options EXCEPT !.suffix = concat(str(number), r.suffix)]
    ELSE r.options

\* batch_convert, lines 241-247: the next file of the loop, and the call of convert
BatchNext ==
    /\ pc = "Converting"
    /\ call.pc = "idle"
    /\ sequence < Len(subtitles)
    /\ sequence' = sequence + 1
    /\ call' = Call(subtitles[sequence + 1], options_for(run, sequence + 1), files)
    /\ UNCHANGED <<files, dirs, pc, args, run, subtitles, failed_subtitles, raised,
                   history, detected, encoding, result>>

\* a ledger that keeps its first entry only
ledger_first_only(ledger, file_path, error) ==
    IF DOMAIN ledger = {} THEN (file_path :> Str(error)) ELSE ledger

\* lines 252 and 258-259 with every exception wrapped
reraised_wrapped(error, file_path) ==
    Raised(Error("EncodingError", file_path), error, 0, <<>>)

\* batch_convert, lines 250 and 256: the ledger with the failure of one more file
ledger_with(ledger, file_path, error) == (file_path :> Str(error)) @@ ledger

\* batch_convert, lines 252 and 258-259: what leaves the call when silent is off
reraised(error, file_path) ==
    IF error.subfix
    THEN Raised(error, NoError, 0, <<>>)
    ELSE Raised(Error("EncodingError", file_path), error, 0, <<>>)

\* batch_convert, lines 248-259: the handlers of the try around convert
BatchHandle ==
    /\ pc = "Converting"
    /\ call.pc \in {"returned", "raised"}
    /\ call' = [call EXCEPT !.pc = "idle"]
    /\ IF call.pc = "returned"
       THEN UNCHANGED <<pc, failed_subtitles, raised>>
       ELSE IF run.silent
       THEN /\ failed_subtitles' =
                   ledger_with(failed_subtitles, call.file_path, call.error)
            /\ UNCHANGED <<pc, raised>>
       ELSE /\ pc' = "Aborted"
            /\ raised' = reraised(call.error, call.file_path)
            /\ UNCHANGED failed_subtitles
    /\ UNCHANGED <<files, dirs, args, run, subtitles, sequence, history,
                   detected, encoding, result>>

\* batch_convert, lines 261-264: after the loop
BatchEnd ==
    /\ pc = "Converting"
    /\ call.pc = "idle"
    /\ sequence = Len(subtitles)
    /\ IF Cardinality(DOMAIN failed_subtitles) > 0
       THEN /\ pc' = "FailedAggregate"
            /\ raised' = Raised(Error("BatchConvertError", None), NoError,
                                Cardinality(DOMAIN failed_subtitles),
                                failed_subtitles)
       ELSE /\ pc' = "Succeeded"
            /\ UNCHANGED raised
    /\ UNCHANGED <<files, dirs, args, run, subtitles, sequence, failed_subtitles,
                   call, history, detected, encoding, result>>

\* ------------------------------------------------------------------------
\* The disks and the calls the model starts from
\* ------------------------------------------------------------------------

\* how many regular files the disk holds at the start
MaxFiles == 2

Src == <<"/", "s">>
Nested == <<"/", "s", "/", "t">>
Outside == <<"/", "o">>
Sibling == <<"/", "s", "x">>

\* the file names of the model: a plain one, one that looks like the plain one
\* with a slug or a sequence number, two whose base name is part of their
\* extension, and two with a character normalize_file_name replaces
NameX == <<"x", ".", "s", "r", "t">>
NameX1 == <<"x", ".", "1", ".", "s", "r", "t">>
NameS == <<"s", ".", "s", "r", "t">>
NameSS == <<"s", ".", "s", "s", "r", "t">>
NameC == <<"c", ":", ".", "s", "r", "t">>
NameC1 == <<"c", ":", ".", "1", ".", "s", "r", "t">>

Pool == {join(Src, NameX), join(Src, NameX1), join(Src, NameS), join(Src, NameSS),
         join(Nested, NameX), join(Sibling, NameX)}

\* the files a disk of SpecConvert may hold
PoolConvert == Pool \cup {join(Src, NameC), join(Src, NameC1)}

\* the disks: at most MaxFiles files of the pool, at most one of them not plain
\* text, and the directories that hold them
Disks(pool, kinds) ==
    {fs \in UNION {[S -> {Content(k, None) : k \in kinds}] :
                      S \in {T \in SUBSET pool : Cardinality(T) <= MaxFiles}} :
        Cardinality({p \in DOMAIN fs : fs[p].kind # "plain"}) <= 1}

DirsOf(fs) == UNION {Ancestors(p) : p \in DOMAIN fs} \cup {<<"/">>, Src}

\* the state every specification shares before its own call starts
Idle ==
    /\ dirs = DirsOf(files)
    /\ run = <<>>
    /\ subtitles = <<>>
    /\ sequence = 0
    /\ failed_subtitles = <<>>
    /\ raised = Raised(NoError, NoError, 0, <<>>)
    /\ history = <<>>
    /\ detected = [encoding |-> None, confidence |-> 0]
    /\ encoding = None
    /\ result = None

\* ------------------------------------------------------------------------
\* SpecConvert: one call of convert(file_path, **options)
\* ------------------------------------------------------------------------

ConvertFiles == {join(Src, NameX), join(Src, NameS), join(Src, NameC), NameX}

ConvertCalls ==
    {Call(f, ConvertOptions(td, tf, sf, sl, enc[1], enc[2]), <<>>) :
        f \in ConvertFiles,
        td \in {None, <<>>, Outside, join(Src, NameX)},
        tf \in {None, <<"x">>, <<"s", ":">>},
        sf \in {None, <<"s">>},
        sl \in {Absent, Some(-1), Some(0), Some(1)},
        enc \in {<<None, None>>, <<UTF8, None>>, <<None, ASCII>>}}

\* a disk and a call; the file that is not plain text, if any, is the call's
InitConvert ==
    /\ files \in Disks(PoolConvert, {"plain", "arabic", "unreadable"})
    /\ Idle
    /\ pc = "convert"
    /\ args = <<>>
    /\ \E c \in ConvertCalls :
          /\ \A p \in DOMAIN files : files[p].kind # "plain" => p = c.file_path
          /\ c.options.from_encoding # None \/ c.options.to_encoding # None
                => c.options.target_file = None /\ c.options.suffix = None
          /\ call = [c EXCEPT !.before = files]

NextConvert == ConvertEnter \/ Resolve \/ ConvertWrite

SpecConvert == InitConvert /\ [][NextConvert]_vars

\* ------------------------------------------------------------------------
\* Spec: one call of batch_convert(source_directory, **options)
\* ------------------------------------------------------------------------

\* the calls: target_directory, fixed_name, sequence_naming and slug_length in
\* combination; a suffix or a silent flag with some of them; and two calls whose
\* arguments batch_convert rejects whatever the disk holds
Calls ==
    {a \in {BatchArgs(Src, td, fn, sq, sf, sl, si, None) :
               td \in {None, <<>>, Nested, Outside},
               fn \in {None, <<"x">>},
               sq \in {Absent, Some(TRUE), Some(FALSE)},
               sf \in {None, <<"s">>},
               sl \in {Absent, Some(0), Some(1)},
               si \in {Absent, Some(TRUE), Some(FALSE)}} :
        /\ a.suffix # None
              => /\ a.fixed_name = None /\ a.slug_length = Absent
                 /\ a.silent = Absent /\ a.target_directory \in {None, Outside}
        /\ a.silent # Absent
              => /\ a.fixed_name = None /\ a.sequence_naming = Absent
                 /\ a.target_directory \in {None, <<>>}
        /\ a.target_directory = <<>>
              => a.fixed_name = None /\ a.slug_length = Absent
        /\ a.sequence_naming = Some(FALSE) => a.slug_length = Absent}
    \cup {BatchArgs(<<"/", "q">>, None, None, Absent, None, Absent, Absent, None),
          BatchArgs(Src, Sibling, None, Absent, None, Absent, Absent, None),
          BatchArgs(Src, None, None, Some(TRUE), <<"s">>, Absent, Some(TRUE), None),
          BatchArgs(Src, join(Src, NameX), None, Absent, None, Absent, Absent, None)}

Init ==
    /\ files \in Disks(Pool, {"plain", "unreadable"})
    /\ Idle
    /\ pc = "Validating"
    /\ args \in Calls
    /\ call = NoCall

Next ==
    \/ BatchStart
    \/ Discover
    \/ BatchNext
    \/ ConvertEnter
    \/ Resolve
    \/ ConvertWrite
    \/ BatchHandle
    \/ BatchEnd

Spec == Init /\ [][Next]_vars

\* ------------------------------------------------------------------------
\* SpecEnc: get_encoding on what the detector reports
\* ------------------------------------------------------------------------

\* the labels the detector reports: none, UTF-8 under four spellings, and
\* three other encodings
Labels ==
    {None,
     <<"u", "t", "f", "-", "8">>,
     <<"U", "T", "F", "-", "8", "-", "S", "I", "G">>,
     <<"U", "t", "f", "8">>,
     <<"x", "-", "U", "T", "F", "8">>,
     <<"U", "T", "F", "-", "1", "6">>,
     <<"a", "s", "c", "i", "i">>,
     <<"W", "i", "n", "d", "o", "w", "s", "-", "1", "2", "5", "6">>}

\* the confidences the detector reports, in hundredths (0.0 to 1.0)
Confidences == 0..100

InitEnc ==
    /\ files = <<>>
    /\ dirs = DirsOf(files)
    /\ pc = "get_encoding"
    /\ args = <<>>
    /\ run = <<>>
    /\ subtitles = <<>>
    /\ sequence = 0
    /\ failed_subtitles = <<>>
    /\ raised = Raised(NoError, NoError, 0, <<>>)
    /\ call = NoCall
    /\ history = <<>>
    /\ detected \in [encoding : Labels, confidence : Confidences]
    /\ encoding = None
    /\ result = None

\* get_encoding, lines 70-80
GetEncoding ==
    /\ pc = "get_encoding"
    /\ encoding' = get_encoding(detected.encoding, detected.confidence)
    /\ pc' = "encoded"
    /\ UNCHANGED <<files, dirs, args, run, subtitles, sequence, failed_subtitles,
                   raised, call, history, detected, result>>

NextEnc == GetEncoding

SpecEnc == InitEnc /\ [][NextEnc]_vars

\* ------------------------------------------------------------------------
\* SpecName: one call of _make_name(directory, file_name, extension, **options)
\* ------------------------------------------------------------------------

MakeNameArgs(directory, file_name, extension, slug, suffix) ==
    [directory |-> directory, file_name |-> file_name, extension |-> extension,
     slug |-> slug, suffix |-> suffix]

\* the source files whose parts _extract_name hands to _make_name: an ordinary
\* name, one whose base name is part of its extension, one without an
\* extension and one without a base name
NameSources ==
    {join(Src, NameX), join(Src, NameS), join(Src, <<"x">>),
     join(Src, <<".", "s", "r", "t">>)}

\* the base names _generate_target_path passes: the source's, or a target_file
BaseNames ==
    {extract_name(f).base_name : f \in NameSources}
       \cup {normalize_file_name(<<"c", ":">>), <<"a", ".", "b">>}

\* the directories of the calls: absolute ones, a relative one and None
Directories == {None, <<"o">>, Src, Nested, Outside}

\* the slugs and the suffixes of the calls; None is a keyword left out
Slugs == {None, <<>>} \cup generate_slug(1) \cup {<<"a", "b">>}
Suffixes == {None, <<>>, <<"2">>, <<"f", "a">>}

InitName ==
    /\ files = <<>>
    /\ Idle
    /\ pc = "make_name"
    /\ args \in {MakeNameArgs(d, b, extract_name(f).extension, sl, sf) :
                    d \in Directories, b \in BaseNames, f \in NameSources,
                    sl \in Slugs, sf \in Suffixes}
    /\ call = NoCall

\* _make_name, lines 426-449
MakeName ==
    /\ pc = "make_name"
    /\ IF args.directory = None
       THEN /\ raised' = Raised(Error("InvalidPathError", None), NoError, 0, <<>>)
            /\ pc' = "raised"
            /\ UNCHANGED result
       ELSE IF ~isabs(args.directory)
       THEN /\ raised' = Raised(Error("PathIsNotAbsoluteError", args.directory),
                                NoError, 0, <<>>)
            /\ pc' = "raised"
            /\ UNCHANGED result
       ELSE /\ result' = make_name(args.directory, args.file_name, args.extension,
                                   or_empty(args.slug), or_empty(args.suffix))
            /\ pc' = "returned"
            /\ UNCHANGED raised
    /\ UNCHANGED <<files, dirs, args, run, subtitles, sequence, failed_subtitles,
                   call, history, detected, encoding>>

NextName == MakeName

SpecName == InitName /\ [][NextName]_vars

\* ------------------------------------------------------------------------
\* Properties
\* ------------------------------------------------------------------------

\* C1: in one batch_convert run the resolver never returns the same destination
\* path for two distinct discovered source files.
C1_DestinationsUnique ==
    \A i, j \in DOMAIN history :
        (i # j /\ history[i].target # None) => history[i].target # history[j].target

\* C2: convert never changes or removes a file that existed before the call; the
\* only path it writes is the one the resolver returned, and that path did not
\* exist before.
C2_NoOverwrite ==
    /\ \A p \in DOMAIN call.before :
          p \in DOMAIN files /\ files[p] = call.before[p]
    /\ (DOMAIN files \ DOMAIN call.before) \subseteq {call.target}
    /\ call.target # None
          => ~exists(call.before, DirsOf(call.before), call.target)

\* a call that returned after it wrote a file that was not there before
C2_Witness ==
    /\ call.pc = "returned"
    /\ call.target \in DOMAIN files
    /\ call.target \notin DOMAIN call.before
    /\ DOMAIN call.before # {}

\* the files of the run whose convert raised
Failed == {history[i].file_path : i \in {k \in DOMAIN history :
                                              history[k].error # NoError}}

C4_FailFast ==
    (pc \in {"Converting", "Aborted", "FailedAggregate", "Succeeded"} /\ ~run.silent)
    => /\ pc # "FailedAggregate"
       /\ raised.error.type # "BatchConvertError"
       /\ failed_subtitles = <<>>
       /\ \A i \in DOMAIN history :
             history[i].error # NoError
                => /\ i = Len(history)
                   /\ i = sequence
                   /\ pc \in {"Converting", "Aborted"}
                   /\ pc = "Converting" => call.pc = "raised"
       /\ pc = "Aborted"
             => /\ history # <<>>
                /\ Len(history) = sequence
                /\ history[sequence].error # NoError
                /\ history[sequence].file_path = subtitles[sequence]
                /\ IF history[sequence].error.type \in SubfixExceptions
                   THEN /\ raised.error = history[sequence].error
                        /\ raised.cause = NoError
                   ELSE /\ raised.error.type = "EncodingError"
                        /\ raised.error.path = subtitles[sequence]
                        /\ raised.cause = history[sequence].error

\* a run with silent off that stopped on an exception of another kind while a
\* discovered file was still waiting
C4_Witness ==
    /\ pc = "Aborted"
    /\ sequence < Len(subtitles)
    /\ raised.error.type = "EncodingError"
    /\ raised.cause.type = "PermissionError"

\* whether a path lies under a directory
Under(p, directory) == StartsWith(p, directory \o <<"/">>)

\* the arguments the claim says batch_convert rejects, on the disk (fs, ds)
Rejectable(a, fs, ds) ==
    \/ a.source_directory \notin ds
    \/ /\ a.target_directory \notin {None, <<>>}
       /\ \/ a.target_directory \in DOMAIN fs
          \/ /\ Under(a.target_directory, a.source_directory)
             /\ a.target_directory \in ds
             /\ \E p \in DOMAIN fs :
                   /\ Under(p, a.target_directory)
                   /\ Len(Split(p, "/")) = Len(Split(a.target_directory, "/")) + 1

\* C5: when batch_convert rejects its arguments (the source is no directory, the
\* target directory is a regular file, or the target directory is nested in the
\* source and holds files) it raises before discovery and before any convert
\* call and leaves the filesystem as it was.
C5_RejectedBeforeWork ==
    [][(pc = "Validating" /\ Rejectable(args, files, dirs))
          => /\ pc' = "Rejected"
             /\ raised'.error.type \in {"InvalidSourceDirectoryError",
                                        "InvalidTargetDirectoryError",
                                        "TargetDirectoryIsNotEmptyError"}
             /\ files' = files
             /\ dirs' = dirs
             /\ subtitles' = <<>>
             /\ history' = <<>>
             /\ call' = NoCall]_vars

\* a call rejected for its nested target directory that holds a file
C5_Witness ==
    /\ pc = "Rejected"
    /\ raised.error.type = "TargetDirectoryIsNotEmptyError"
    /\ args.target_directory = Nested
    /\ join(Nested, NameX) \in DOMAIN files
    /\ history = <<>>

\* the text after the last dot of a file name
TextAfterLastDot(name) == SubSeq(name, AfterLast(name, ".") + 1, Len(name))

\* C6: the extension of the path the resolver returns is the source file's
\* extension, the text after the last dot of the source file's name.
C6_ExtensionOfSource ==
    (call.target # None /\ Contains(basename(call.file_path), <<".">>))
    => TextAfterLastDot(basename(call.target))
          = TextAfterLastDot(basename(call.file_path))

\* the labels of the model that hold utf8 or utf-8 in some case
Utf8Labels ==
    {<<"u", "t", "f", "-", "8">>,
     <<"U", "T", "F", "-", "8", "-", "S", "I", "G">>,
     <<"U", "t", "f", "8">>,
     <<"x", "-", "U", "T", "F", "8">>}

\* C7: get_encoding returns 'utf-8' for a label that holds utf8 or utf-8 in any
\* case with confidence >= 0.7, the label itself for any other label with
\* confidence >= 0.7, and 'cp1256' when the label is missing or the confidence
\* is below 0.7.
C7_EncodingPolicy ==
    pc = "encoded"
    => IF detected.encoding = None \/ detected.confidence < 70
       THEN encoding = <<"c", "p", "1", "2", "5", "6">>
       ELSE IF detected.encoding \in Utf8Labels
       THEN encoding = <<"u", "t", "f", "-", "8">>
       ELSE encoding = detected.encoding

\* an upper-case UTF-8 label at exactly the threshold, answered with 'utf-8'
C7_Witness ==
    /\ pc = "encoded"
    /\ detected.encoding = <<"U", "T", "F", "-", "8", "-", "S", "I", "G">>
    /\ detected.confidence = 70
    /\ encoding = <<"u", "t", "f", "-", "8">>

\* directory/base[.suffix].extension for the parts an invocation worked with
PlainCandidate(a) ==
    a.destination_dir \o <<"/">> \o a.destination_name
       \o (IF a.suffix = <<>> THEN <<>> ELSE <<".">> \o a.suffix)
       \o <<".">> \o a.extension

\* whether an invocation got past the resolver's assertions
Asserted(a) ==
    isabs(a.path) /\ isabs(a.destination_dir)
       /\ (a.target_directory = None \/ isabs(a.target_directory))

\* C8: if the plain candidate directory/base[.suffix].extension does not exist,
\* the resolver returns exactly that path at its first invocation, whatever the
\* slug length and whatever slug the generator produced.
C8_PlainCandidateReturned ==
    (call.attempts # <<>>
        /\ Asserted(call.attempts[1])
        /\ ~exists(call.before, DirsOf(call.before),
                   PlainCandidate(call.attempts[1])))
    => /\ Len(call.attempts) = 1
       /\ call.pc \in {"write", "returned", "raised"}
       /\ call.target = PlainCandidate(call.attempts[1])

\* a resolution that drew a slug and returned the free plain candidate
C8_Witness ==
    /\ call.pc = "write"
    /\ Len(call.attempts) = 1
    /\ call.attempts[1].slug # <<>>
    /\ call.target = PlainCandidate(call.attempts[1])
    /\ call.target # call.attempts[1].new_duplicate_path

\* C9: if the plain candidate exists and slug_length is 0, absent or negative,
\* the resolver raises FileAlreadyExistedError naming the plain candidate,
\* without a retry and without changing the filesystem.
C9_CollisionWithoutSlug ==
    (call.attempts # <<>>
        /\ Asserted(call.attempts[1])
        /\ exists(call.before, DirsOf(call.before),
                  PlainCandidate(call.attempts[1]))
        /\ call.attempts[1].slug_length <= 0)
    => /\ Len(call.attempts) = 1
       /\ call.pc = "raised"
       /\ call.error.type = "FileAlreadyExistedError"
       /\ call.error.path = PlainCandidate(call.attempts[1])
       /\ call.target = None
       /\ files = call.before
       /\ dirs = DirsOf(call.before)

\* a call with a negative slug length that met its plain candidate on disk
C9_Witness ==
    /\ call.pc = "raised"
    /\ call.options.slug_length = Some(-1)
    /\ call.error.type = "FileAlreadyExistedError"
    /\ call.error.path \in DOMAIN files

\* the length of the longest path among the paths of a set
Longest(paths) ==
    LET lengths == {Len(p) : p \in paths} \cup {0}
    IN  CHOOSE n \in lengths : \A m \in lengths : m <= n

\* C10: the resolver terminates. Every step of a resolution ends it or is one
\* more invocation; the number of invocations of one resolution never exceeds
\* the length of the longest path on disk; and a resolution that got past its
\* assertions ends with a path or with FileAlreadyExistedError.
C10_ResolverTerminates ==
    /\ [][call.pc = "resolve"
             => \/ call'.pc \in {"write", "raised"}
                \/ Len(call'.attempts) = Len(call.attempts) + 1]_vars
    /\ [](Len(call.attempts) <= Longest(DOMAIN call.before))
    /\ []((call.attempts # <<>> /\ Asserted(call.attempts[1]))
             => \/ call.pc = "resolve"
                \/ call.target # None
                \/ call.error.type = "FileAlreadyExistedError")

\* a resolution that retried and then returned a path
C10_Witness ==
    /\ call.pc = "write"
    /\ Len(call.attempts) >= 2
    /\ call.target # None

\* whether the i-th convert call of the run was given a suffix that starts
\* with its sequence number
Numbered(i) ==
    history[i].suffix # None /\ StartsWith(history[i].suffix, str(i))

\* C11: batch_convert applies sequence naming whenever a non-empty
\* target_directory or a non-empty fixed_name is given, whatever the caller's
\* flag; when neither is given, exactly when the caller's flag is True.
C11_SequenceNamingForced ==
    \A i \in DOMAIN history :
        /\ Numbered(i)
              <=> \/ args.target_directory \notin {None, <<>>}
                  \/ args.fixed_name \notin {None, <<>>}
                  \/ args.sequence_naming = Some(TRUE)
        /\ (Numbered(i) /\ history[i].target # None)
              => Contains(basename(history[i].target),
                          <<".">> \o history[i].suffix \o <<".">>)

\* a run whose caller set sequence_naming to False and gave a target
\* directory, and whose first file got the number 1
C11_Witness ==
    /\ args.sequence_naming = Some(FALSE)
    /\ args.target_directory = Outside
    /\ Len(history) >= 1
    /\ history[1].suffix = <<"1">>
    /\ history[1].target # None

\* C12: a non-empty suffix the caller gave batch_convert appears in every
\* destination file name, at the end of the name and before the extension,
\* whether or not sequence naming is active.
C12_SuffixInEveryName ==
    \A i \in DOMAIN history :
        (args.suffix \notin {None, <<>>} /\ history[i].target # None)
        => EndsWith(basename(history[i].target),
                    <<".">> \o args.suffix \o <<".">>
                       \o TextAfterLastDot(basename(history[i].target)))

\* C13: convert is all-or-nothing: when a convert call raises, no destination
\* file of that call exists afterwards, neither empty nor partial.
C13_AllOrNothing ==
    call.pc = "raised"
    => /\ DOMAIN files = DOMAIN call.before
       /\ call.target # None => call.target \notin DOMAIN files

\* whether the target directory of the call is nested inside its source
\* directory and directly holds a regular file
NestedNotEmpty(a, fs, ds) ==
    /\ a.target_directory \notin {None, <<>>}
    /\ a.source_directory \in ds
    /\ a.target_directory = a.source_directory
          \/ Under(a.target_directory, a.source_directory)
    /\ \E p \in DOMAIN fs : dirname(p) = a.target_directory

\* C14: batch_convert raises TargetDirectoryIsNotEmptyError if and only if an
\* explicit target directory is nested inside the source directory and directly
\* holds a regular file; a target directory outside the source tree is never
\* rejected for being non-empty.
C14_NestedTargetOnly ==
    [][pc = "Validating"
          => ((pc' = "Rejected"
                  /\ raised'.error.type = "TargetDirectoryIsNotEmptyError")
                <=> NestedNotEmpty(args, files, dirs))]_vars

\* the states a run of batch_convert ends in, by the claim and by the code
ThreeEnds == {"Rejected", "Succeeded", "FailedAggregate"}
FourEnds == ThreeEnds \cup {"Aborted"}

\* the moves of a run from one state to another, for a set of end states
Moves(ends) ==
    {<<"Validating", "Discovering">>, <<"Validating", "Rejected">>,
     <<"Discovering", "Converting">>}
       \cup {<<"Converting", e>> : e \in ends \ {"Rejected"}}

\* how far a run is from its end: its state, the files still to convert, and
\* the steps the convert call in progress can still take
RankOfRun ==
    CASE pc = "Validating" -> 3
      [] pc = "Discovering" -> 2
      [] pc = "Converting" -> 1
      [] OTHER -> 0

RankOfLoop == Len(subtitles) - sequence

RankOfCall ==
    CASE call.pc = "enter" -> 4 + Longest(DOMAIN call.before)
      [] call.pc = "resolve" ->
            3 + Longest(DOMAIN call.before) - Len(call.attempts)
      [] call.pc = "write" -> 2
      [] call.pc \in {"returned", "raised"} -> 1
      [] OTHER -> 0

\* a step after which the rank is less, in the lexicographic order
RankDecreases ==
    \/ RankOfRun' < RankOfRun
    \/ RankOfRun' = RankOfRun /\ RankOfLoop' < RankOfLoop
    \/ RankOfRun' = RankOfRun /\ RankOfLoop' = RankOfLoop
          /\ RankOfCall' < RankOfCall

\* C15 as stated: every run passes through Validating, Discovering and
\* Converting in that order and ends in one of Rejected, Succeeded and
\* FailedAggregate, Rejected only from Validating, before any conversion.
C15_ThreeEndStates ==
    /\ [][pc' # pc => <<pc, pc'>> \in Moves(ThreeEnds)]_vars
    /\ [](pc = "Rejected" => history = <<>> /\ call = NoCall)

\* C15 as amended: the run passes through Validating, Discovering and
\* Converting in that order and ends in one of Rejected, Succeeded,
\* FailedAggregate and Aborted (a file's error propagated with silent off);
\* every step brings the run nearer to its end, no step starts from an end
\* state, and an exception has left the call exactly in Rejected,
\* FailedAggregate and Aborted.
C15_FourEndStates ==
    /\ [][pc' # pc => <<pc, pc'>> \in Moves(FourEnds)]_vars
    /\ [][pc \notin FourEnds]_vars
    /\ [][RankDecreases]_vars
    /\ [](RankOfRun >= 0 /\ RankOfLoop >= 0 /\ RankOfCall >= 0)
    /\ [](pc = "Rejected" => history = <<>> /\ call = NoCall)
    /\ [](pc = "Aborted" => ~run.silent /\ history # <<>>)
    /\ [](raised.error # NoError
             <=> pc \in {"Rejected", "FailedAggregate", "Aborted"})

\* a run that stopped on the error of its second file
C15_Witness ==
    /\ pc = "Aborted"
    /\ Len(history) = 2
    /\ history[2].error = raised.error

\* C16: batch_convert never deletes or truncates a destination file it has
\* written: every file a convert call of the run wrote is on disk, with what
\* that call wrote, in every later state of the run, its end included.
C16_WrittenFilesKept ==
    \A i \in DOMAIN history :
        history[i].error = NoError
        => /\ history[i].target \in DOMAIN files
           /\ files[history[i].target]
                 = Content("converted", history[i].file_path)

\* a run that stopped on the error of its second file with the first
\* file's destination on disk
C16_Witness ==
    /\ pc = "Aborted"
    /\ Len(history) = 2
    /\ history[1].error = NoError
    /\ history[1].target \in DOMAIN files

\* whether sequence naming ends up active for the arguments of a run
SequenceNamingActive(a) ==
    \/ a.sequence_naming = Some(TRUE)
    \/ a.target_directory \notin {None, <<>>}
    \/ a.fixed_name \notin {None, <<>>}

\* C17: batch_convert uses the default slug length 3 only when the caller
\* gave no slug_length and sequence naming ended up inactive; when sequence
\* naming ended up active and no slug_length was given no slug is used; an
\* explicit slug_length, 0 included, is used as given.
C17_DefaultSlugLength ==
    \A i \in DOMAIN history :
        history[i].attempts # <<>>
        => history[i].attempts[1].slug_length
              = IF args.slug_length # Absent THEN args.slug_length[1]
                ELSE IF SequenceNamingActive(args) THEN 0
                ELSE 3

\* C18: each retry of one resolution uses a slug exactly one character longer
\* than the attempt before, and the destination directory, base name, suffix
\* and extension are the same on every attempt; only the slug differs.
C18_OnlySlugDiffers ==
    \A i \in 2..Len(call.attempts) :
        /\ Len(call.attempts[i].slug) = Len(call.attempts[i - 1].slug) + 1
        /\ call.attempts[i].destination_dir = call.attempts[i - 1].destination_dir
        /\ call.attempts[i].destination_name
              = call.attempts[i - 1].destination_name
        /\ call.attempts[i].suffix = call.attempts[i - 1].suffix
        /\ call.attempts[i].extension = call.attempts[i - 1].extension

\* directory/base.slug[.suffix].extension for the parts an invocation worked
\* with and a slug
SluggedCandidate(a, slug) ==
    a.destination_dir \o <<"/">> \o a.destination_name \o <<".">> \o slug
       \o (IF a.suffix = <<>> THEN <<>> ELSE <<".">> \o a.suffix)
       \o <<".">> \o a.extension

\* C19: if the plain candidate exists and slug_length = L > 0, the path the
\* resolver returns is a slugged candidate base.slug[.suffix].extension that
\* did not exist, whose slug has length L + k, k the number of earlier
\* attempts of the resolution (each of them met its slugged candidate on disk).
C19_SluggedCandidateReturned ==
    (call.target # None
        /\ call.attempts[1].slug_length > 0
        /\ exists(call.before, DirsOf(call.before),
                  PlainCandidate(call.attempts[1])))
    => /\ call.target
             = SluggedCandidate(call.attempts[1],
                                call.attempts[Len(call.attempts)].slug)
       /\ Len(call.attempts[Len(call.attempts)].slug)
             = call.attempts[1].slug_length + Len(call.attempts) - 1
       /\ ~exists(call.before, DirsOf(call.before), call.target)
       /\ \A i \in 1..(Len(call.attempts) - 1) :
             exists(call.before, DirsOf(call.before),
                    call.attempts[i].new_duplicate_path)

\* the suffix the i-th file of a numbered run is resolved with
SequenceSuffix(a, i) ==
    IF a.suffix \in {None, <<>>} THEN str(i) ELSE str(i) \o <<".">> \o a.suffix

\* C20: when sequence naming is active in batch_convert, the i-th file in
\* discovery order (counted from 1, files whose conversion fails included) is
\* resolved with suffix str(i) when the caller's suffix is empty and
\* str(i) + '.' + suffix otherwise; no two files of one run receive the same
\* sequence number.
C20_SequenceNumbers ==
    SequenceNamingActive(args)
    => /\ \A i \in DOMAIN history :
             /\ history[i].file_path = subtitles[i]
             /\ history[i].suffix = SequenceSuffix(args, i)
             /\ \A j \in DOMAIN history[i].attempts :
                   history[i].attempts[j].suffix = SequenceSuffix(args, i)
       /\ \A i, j \in DOMAIN history :
             i # j => /\ history[i].suffix # history[j].suffix
                      /\ history[i].file_path # history[j].file_path

\* a numbered run with a suffix whose first file failed and whose second file
\* was resolved with the number 2
C20_Witness ==
    /\ SequenceNamingActive(args)
    /\ args.suffix = <<"s">>
    /\ Len(history) = 2
    /\ history[1].error # NoError
    /\ history[1].suffix = <<"1", ".", "s">>
    /\ history[2].suffix = <<"2", ".", "s">>
    /\ Len(history[2].attempts) >= 1
    /\ history[2].target # None

\* the text a component adds to a name: nothing when it is empty or left out,
\* else a '.' and the component
Dotted(component) ==
    IF or_empty(component) = <<>> THEN <<>> ELSE <<".">> \o component

\* C21: _make_name returns directory/base followed by the non-empty ones among
\* slug, suffix and extension, in that order, each preceded by a single '.',
\* every empty component being dropped; with empty slug and empty suffix the
\* result is always base.ext.
C21_NameAssembly ==
    pc = "returned"
    => /\ result = args.directory \o <<"/">> \o args.file_name
                     \o Dotted(args.slug) \o Dotted(args.suffix)
                     \o Dotted(args.extension)
       /\ (or_empty(args.slug) = <<>> /\ or_empty(args.suffix) = <<>>)
             => result = args.directory \o <<"/">> \o args.file_name
                            \o <<".">> \o args.extension

\* C22: in a batch_convert run the set of files passed to convert is fixed when
\* discovery ends: the list does not change during the loop, the i-th convert
\* call is for the i-th file of the list, each file of the list is there once,
\* and no file written by the run is in the list, even when outputs are written
\* inside the walked source tree.
C22_DiscoveredOnce ==
    /\ [][pc # "Discovering" => subtitles' = subtitles]_vars
    /\ [](\A i, j \in DOMAIN subtitles : i # j => subtitles[i] # subtitles[j])
    /\ [](Len(history) <= Len(subtitles))
    /\ [](\A i \in DOMAIN history : history[i].file_path = subtitles[i])
    /\ []((pc = "Converting" /\ call.pc # "idle")
             => call.file_path = subtitles[sequence])
    /\ [](\A i \in DOMAIN history :
             history[i].target # None => history[i].target \notin Range(subtitles))

\* a run over two files that wrote the first one's output inside the source
\* tree, under a name a new walk would discover, and went on to the second
\* file of its list
C22_Witness ==
    /\ Len(subtitles) = 2
    /\ Len(history) = 2
    /\ history[1].target \in DOMAIN files
    /\ history[1].target
          \in discover_subtitles(files, run.source_directory, run.extensions)
    /\ history[1].target \notin Range(subtitles)
    /\ history[2].file_path = subtitles[2]

====
